---- MODULE Spec2Model ----
(***************************************************************************)
(* Model of glide's LangModel (pkg/providers): a provider client wrapped   *)
(* with health tracking (rate-limit tracker, error-budget token bucket)    *)
(* and a per-token latency estimator.  The state is one LangModel, built   *)
(* by NewLangModel with any model id and error budget.                     *)
(* A second part models Gateway.Run (pkg/gateway.go): the wait loop over   *)
(* OS signals, the shutdown channel and the context, and the server        *)
(* shutdown that ends it.                                                  *)
(*                                                                         *)
(* Time is a discrete monotonic clock `now`.  A Chat call is split at its  *)
(* only suspension point, the provider client call: ChatCall records       *)
(* startedAt, ChatReturn is the client's return followed by the rest of    *)
(* the handler.  float64 values are exact rationals <<n, d>> with d >= 0;  *)
(* d = 0 encodes the IEEE specials: <<1,0>> = +Inf, <<-1,0>> = -Inf,        *)
(* <<0,0>> = NaN.                                                          *)
(***************************************************************************)
EXTENDS Integers, Sequences, FiniteSets, TLC

\* ---------------------------------------------------------------- bounds
MaxTime == 3
MaxBudget == 2
RefillInterval == 2
MaxReset == 2
MaxTokens == 2
MaxSamples == 2
WarmupSamples == 1
MaxAttempts == 2
MaxRequests == 2
MaxRouterSamples == 1

\* model ids in use within one router, the id of the model under study, and
\* the callers of that model
ModelIDs == {"A", "B"}
SelfID == "A"
Callers == {1, 2}
\* Spec: the model is called by one caller at a time
Sequential == {1}

\* ---------------------------------------------------------------- float64
RECURSIVE GCD(_, _)
GCD(a, b) == IF b = 0 THEN a ELSE GCD(b, a % b)

Abs(x) == IF x < 0 THEN -x ELSE x

Sign(x) == IF x > 0 THEN 1 ELSE IF x < 0 THEN -1 ELSE 0

NaN == <<0, 0>>

FNorm(n, d) ==
    IF d = 0 THEN <<Sign(n), 0>>
    ELSE IF n = 0 THEN <<0, 1>>
    ELSE LET g == GCD(Abs(n), Abs(d))
             s == Sign(d)
         IN <<(s * n) \div g, (s * d) \div g>>

IsNaN(a) == a[1] = 0 /\ a[2] = 0

IsInf(a) == a[1] # 0 /\ a[2] = 0

FNeg(a) == <<-a[1], a[2]>>

FAdd(a, b) ==
    IF IsNaN(a) \/ IsNaN(b) THEN NaN
    ELSE IF IsInf(a) /\ IsInf(b) THEN (IF a[1] = b[1] THEN a ELSE NaN)
    ELSE IF IsInf(a) THEN a
    ELSE IF IsInf(b) THEN b
    ELSE FNorm(a[1] * b[2] + b[1] * a[2], a[2] * b[2])

FSub(a, b) == FAdd(a, FNeg(b))

FMul(a, b) ==
    IF IsNaN(a) \/ IsNaN(b) THEN NaN
    ELSE IF IsInf(a) \/ IsInf(b)
         THEN (IF a[1] = 0 \/ b[1] = 0 THEN NaN ELSE <<Sign(a[1]) * Sign(b[1]), 0>>)
    ELSE FNorm(a[1] * b[1], a[2] * b[2])

\* float64(x) / y for non-negative integral x, y: y = 0 gives +Inf or NaN
FDiv(x, y) == FNorm(x, y)

Decay == <<1, 2>>

\* ---------------------------------------------------------------- latency.MovingAverage
NewMovingAverage == [count |-> 0, value |-> <<0, 1>>]

MovingAverageAdd(ma, sample) ==
    [count |-> ma.count + 1,
     value |-> IF ma.count < WarmupSamples
               THEN FAdd(ma.value, FMul(FSub(sample, ma.value), <<1, ma.count + 1>>))
               ELSE FAdd(FMul(ma.value, FSub(<<1, 1>>, Decay)), FMul(sample, Decay))]

\* ---------------------------------------------------------------- health.TokenBucket
Min(a, b) == IF a < b THEN a ELSE b

NewTokenBucket(timePerToken, capacity, t) ==
    [capacity |-> capacity, refillInterval |-> timePerToken,
     tokens |-> capacity, lastRefill |-> t]

Refill(b, t) ==
    LET newTokens == (t - b.lastRefill) \div b.refillInterval
    IN IF newTokens > 0
       THEN [b EXCEPT !.tokens = Min(b.capacity, b.tokens + newTokens),
                      !.lastRefill = b.lastRefill + newTokens * b.refillInterval]
       ELSE b

HasTokens(b, t) == Refill(b, t).tokens > 0

Take(b, n, t) ==
    LET r == Refill(b, t)
    IN IF r.tokens >= n THEN [r EXCEPT !.tokens = r.tokens - n] ELSE b

\* ---------------------------------------------------------------- health.RateLimitTracker
\* resetAt is optional: isSome = FALSE is "not limited", at is then 0
NewRateLimitTracker == [isSome |-> FALSE, at |-> 0]

SetLimited(rl, d, t) == [isSome |-> TRUE, at |-> t + d]

Limited(rl, t) == rl.isSome /\ rl.at > t

\* the tracker after a call of Limited(): an expired limit clears itself
AfterLimited(rl, t) ==
    IF rl.isSome /\ rl.at <= t THEN NewRateLimitTracker ELSE rl

\* ---------------------------------------------------------------- provider client
NoError == [kind |-> "none", untilReset |-> 0]

RateLimitError(d) == [kind |-> "ratelimit", untilReset |-> d]

OtherError(k) == [kind |-> k, untilReset |-> 0]

NilResp == [nil |-> TRUE, modelID |-> "", tokens |-> 0]

Resp(id, n) == [nil |-> FALSE, modelID |-> id, tokens |-> n]

\* model ids a client may itself have put in the response
ClientModelIDs == {""} \cup (ModelIDs \ {SelfID})

\* what m.client.Chat may return: (resp, nil) or (nil, err)
ClientOutcomes ==
    {[resp |-> Resp(id, n), err |-> NoError] : id \in ClientModelIDs, n \in {0, MaxTokens}}
    \cup {[resp |-> NilResp, err |-> RateLimitError(d)] : d \in 0..MaxReset}
    \cup {[resp |-> NilResp, err |-> OtherError(k)] : k \in {"request", "cancelled", "deadline"}}

\* errors.As(err, &rle)
IsRateLimitError(err) == err.kind = "ratelimit"

\* ---------------------------------------------------------------- state
\* now: monotonic clock; modelID, rateLimit, errorBudget, latency: the fields
\* of the LangModel; inflight: per caller, the Chat call waiting in the
\* provider client; last: the last operation, its inputs and what it returned
\* history (never read by the operations): cooldown: the last rate-limit error
\* Chat handled, while no error followed it; fail: the non-rate-limit failures
\* since construction (n, saturating above the budget), when the first of them
\* happened (kept while n is below the budget), when the last one did, and
\* whether all of them (up to the budget) were context errors; overlap: opened
\* when every caller has a Chat call in the provider client at once, with the
\* tokens the budget then held, counting the non-rate-limit failures handled
\* since (saturating at the budget), closed when the clock advances
VARIABLES now, modelID, budget, rateLimit, errorBudget, latency, inflight, last,
          cooldown, fail, overlap

\* the Gateway: gRun: where Run is ("new": not called, "starting": before
\* signal.Notify, "waiting": in the select, "break": left the loop by break
\* LOOP, "shutdown": inside serverManager.Shutdown, "returned"); signalC: the
\* buffered signal channel; shutdownC: whether the shutdown channel is closed;
\* ctxDone: whether Run's context is done; shutdownCtx: the context
\* serverManager.Shutdown was called with and whether Run's context was done
\* at that call; shutdownCalls: the calls of serverManager.Shutdown
\* history: trigger: the select case Run took and the cases that were ready
\* at that select; requestedAt: where Run was when
\* Shutdown() was called; signalled: a signal was delivered to signalC
VARIABLES gRun, signalC, shutdownC, ctxDone, shutdownCtx, shutdownCalls,
          trigger, requestedAt, signalled

\* the LangRouter: rModels: health and latency state of each model of the
\* router; maxAttempts: the retry policy; rPhase: where the chat call is
\* ("new": no router yet, "idle", "loop": at the loop head, "calling": in the
\* provider client, "handling": m.chat has returned, "done"); rCtx: the
\* caller's context ("live", "cancelled", "deadline"); rAttempts: the loop's
\* counter; rPicked: the attempt's model; rStartedAt: when its call started;
\* rOut: what m.chat returned; rLastErr: the last error that was retried;
\* rResult: what chat returned
\* history: rCalls: the provider calls of this chat call; rPrev: the model
\* of the previous attempt, whether that attempt rate-limited it or took its
\* last token (marked), and whether the filter of the attempt after it then
\* left it out (excluded); rCtxAt: where the call was when its context became
\* done; rRequests: the chat calls so far
VARIABLES rModels, maxAttempts, rPhase, rCtx, rAttempts, rPicked, rStartedAt,
          rOut, rLastErr, rResult, rCalls, rPrev, rCtxAt, rRequests

rtVars == <<rModels, maxAttempts, rPhase, rCtx, rAttempts, rPicked, rStartedAt,
            rOut, rLastErr, rResult, rCalls, rPrev, rCtxAt, rRequests>>

gwVars == <<gRun, signalC, shutdownC, ctxDone, shutdownCtx, shutdownCalls,
            trigger, requestedAt, signalled>>

lmVars == <<now, modelID, budget, rateLimit, errorBudget, latency, inflight, last,
            cooldown, fail, overlap>>

vars == <<lmVars, gwVars, rtVars>>

\* make(chan os.Signal, 3)
SignalBuffer == 3

\* os.Interrupt, syscall.SIGTERM, syscall.SIGINT (os.Interrupt is SIGINT)
Signals == {"SIGINT", "SIGTERM"}

NoContext == [which |-> "none", done |-> FALSE]

\* NewGateway
GatewayInit ==
    /\ gRun = "new"
    /\ signalC = <<>>
    /\ shutdownC = FALSE
    /\ ctxDone = FALSE
    /\ shutdownCtx = NoContext
    /\ shutdownCalls = 0
    /\ trigger = [case |-> "none", ready |-> {}]
    /\ requestedAt = "never"
    /\ signalled = FALSE

NoCooldown == [active |-> FALSE, from |-> 0, until |-> 0, hadTokens |-> FALSE]

Idle == [busy |-> FALSE, startedAt |-> 0]

NoOverlap == [open |-> FALSE, tokens |-> 0, failures |-> 0]

\* faulty variant: the bucket's arguments in the wrong order
NewLangModelSwapped(id, b) ==
    [modelID |-> id,
     rateLimit |-> NewRateLimitTracker,
     errorBudget |-> NewTokenBucket(b, RefillInterval, 0),
     latency |-> NewMovingAverage]

NewLangModel(id, b) ==
    [modelID |-> id,
     rateLimit |-> NewRateLimitTracker,
     errorBudget |-> NewTokenBucket(RefillInterval, b, 0),
     latency |-> NewMovingAverage]

NoResult == [kind |-> "none", resp |-> NilResp, err |-> NoError]

NoPrevious == [id |-> "", marked |-> FALSE, excluded |-> FALSE]

\* the router's models as constructed, no chat call yet
RouterInit ==
    /\ rModels = [m \in ModelIDs |->
                    [rateLimit |-> NewLangModel(m, budget).rateLimit,
                     errorBudget |-> NewLangModel(m, budget).errorBudget,
                     latency |-> NewLangModel(m, budget).latency]]
    /\ maxAttempts = 0
    /\ rPhase = "new"
    /\ rCtx = "live"
    /\ rAttempts = 0
    /\ rPicked = ""
    /\ rStartedAt = 0
    /\ rOut = [resp |-> NilResp, err |-> NoError]
    /\ rLastErr = NoError
    /\ rResult = NoResult
    /\ rCalls = 0
    /\ rPrev = NoPrevious
    /\ rCtxAt = "never"
    /\ rRequests = 0

Init ==
    /\ now = 0
    /\ budget \in 1..MaxBudget
    /\ modelID = NewLangModel(SelfID, budget).modelID
    /\ rateLimit = NewLangModel(SelfID, budget).rateLimit
    /\ errorBudget = NewLangModel(SelfID, budget).errorBudget
    /\ latency = NewLangModel(SelfID, budget).latency
    /\ inflight = [c \in Callers |-> Idle]
    /\ last = [op |-> "New"]
    /\ cooldown = NoCooldown
    /\ fail = [n |-> 0, first |-> 0, last |-> 0, cancels |-> TRUE]
    /\ overlap = NoOverlap
    /\ GatewayInit
    /\ RouterInit

\* the monotonic clock advances
Tick ==
    /\ now < MaxTime
    /\ now' = now + 1
    /\ last' = [op |-> "Tick"]
    /\ overlap' = NoOverlap
    /\ UNCHANGED <<modelID, budget, rateLimit, errorBudget, latency, inflight>>
    /\ UNCHANGED <<cooldown, fail, gwVars, rtVars>>

\* faulty variant: the error budget is not consulted
HealthyResultIgnoresBudget(rl, b, t) == ~Limited(rl, t)

\* !m.rateLimit.Limited() && m.errorBudget.HasTokens()
HealthyResult(rl, b, t) == ~Limited(rl, t) /\ HasTokens(b, t)

\* Healthy(): && short-circuits, so HasTokens (and its lazy refill) only runs
\* when the tracker is not limited
Healthy ==
    /\ rateLimit' = AfterLimited(rateLimit, now)
    /\ errorBudget' = IF Limited(rateLimit, now) THEN errorBudget
                      ELSE Refill(errorBudget, now)
    /\ last' = [op |-> "Healthy", ret |-> HealthyResult(rateLimit, errorBudget, now)]
    /\ UNCHANGED <<now, modelID, budget, latency, inflight>>
    /\ UNCHANGED <<cooldown, fail, overlap, gwVars, rtVars>>

\* Chat up to the provider call: startedAt := time.Now(); m.client.Chat(...)
ChatCall(c) ==
    /\ ~inflight[c].busy
    /\ inflight' = [inflight EXCEPT ![c] = [busy |-> TRUE, startedAt |-> now]]
    /\ last' = [op |-> "ChatCall", c |-> c]
    /\ overlap' = IF \A d \in Callers : inflight'[d].busy
                  THEN [open |-> TRUE,
                        tokens |-> Refill(errorBudget, now).tokens,
                        failures |-> 0]
                  ELSE overlap
    /\ UNCHANGED <<now, modelID, budget, rateLimit, errorBudget, latency>>
    /\ UNCHANGED <<cooldown, fail, gwVars, rtVars>>

\* the latency estimator after Chat handled the client's outcome
ChatLatency(ma, out, elapsed) ==
    IF out.err = NoError
    THEN MovingAverageAdd(ma, FDiv(elapsed, out.resp.tokens))
    ELSE ma

\* faulty variant: the error's reset duration is dropped
ChatRateLimitNoDuration(rl, out, t) ==
    IF out.err # NoError /\ IsRateLimitError(out.err)
    THEN SetLimited(rl, 0, t)
    ELSE rl

\* faulty variant: a success clears the rate limit
ChatRateLimitClearedBySuccess(rl, out, t) ==
    IF out.err = NoError THEN NewRateLimitTracker
    ELSE IF IsRateLimitError(out.err) THEN SetLimited(rl, out.err.untilReset, t)
    ELSE rl

\* the rate-limit tracker after Chat handled the client's outcome
ChatRateLimit(rl, out, t) ==
    IF out.err # NoError /\ IsRateLimitError(out.err)
    THEN SetLimited(rl, out.err.untilReset, t)
    ELSE rl

\* faulty variant: the rate-limit branch falls through to the debit
ChatErrorBudgetAnyError(b, out, t) ==
    IF out.err # NoError THEN Take(b, 1, t) ELSE b

\* faulty variant: the debit is missing
ChatErrorBudgetNoDebit(b, out, t) == b

\* faulty variant: the errors.As test is inverted
ChatErrorBudgetInverted(b, out, t) ==
    IF out.err # NoError /\ IsRateLimitError(out.err)
    THEN Take(b, 1, t)
    ELSE b

\* faulty variant: context errors are not counted against the budget
ChatErrorBudgetSparesContext(b, out, t) ==
    IF out.err # NoError /\ out.err.kind = "request"
    THEN Take(b, 1, t)
    ELSE b

\* faulty variant: the debit is written from a stale read of the full bucket
ChatErrorBudgetLostUpdate(b, out, t) ==
    IF out.err # NoError /\ ~IsRateLimitError(out.err)
    THEN IF Refill(b, t).tokens >= 1
         THEN [Refill(b, t) EXCEPT !.tokens = b.capacity - 1]
         ELSE b
    ELSE b

\* the error budget after Chat handled the client's outcome
ChatErrorBudget(b, out, t) ==
    IF out.err # NoError /\ ~IsRateLimitError(out.err)
    THEN Take(b, 1, t)
    ELSE b

\* faulty variant: the response keeps the model id the client set
ChatResultNoStamp(id, out) == [resp |-> out.resp, err |-> out.err]

\* faulty variant: the rate-limit branch returns a nil error
ChatResultDropsError(id, out) ==
    IF out.err = NoError
    THEN [resp |-> [out.resp EXCEPT !.modelID = id], err |-> out.err]
    ELSE [resp |-> out.resp,
          err |-> IF IsRateLimitError(out.err) THEN NoError ELSE out.err]

\* what Chat returns to its caller
ChatResult(id, out) ==
    IF out.err = NoError
    THEN [resp |-> [out.resp EXCEPT !.modelID = id], err |-> out.err]
    ELSE [resp |-> out.resp, err |-> out.err]

\* the provider client returns `out`, Chat runs to its return
ChatReturn(c, out) ==
    LET elapsed == now - inflight[c].startedAt
    IN /\ inflight[c].busy
       /\ out.err = NoError => latency.count < MaxSamples
       /\ latency' = ChatLatency(latency, out, elapsed)
       /\ rateLimit' = ChatRateLimit(rateLimit, out, now)
       /\ errorBudget' = ChatErrorBudget(errorBudget, out, now)
       /\ inflight' = [inflight EXCEPT ![c] = Idle]
       /\ last' = [op |-> "ChatReturn", c |-> c, out |-> out,
                   ret |-> ChatResult(modelID, out),
                   took |-> out.err # NoError /\ ~IsRateLimitError(out.err)
                            /\ HasTokens(errorBudget, now)]
       /\ cooldown' = IF out.err = NoError THEN cooldown
                      ELSE IF out.err.kind = "ratelimit"
                      THEN [active |-> TRUE, from |-> now,
                            until |-> now + out.err.untilReset,
                            hadTokens |-> HasTokens(errorBudget, now)]
                      ELSE NoCooldown
       /\ fail' = IF out.err.kind \in {"none", "ratelimit"} THEN fail
                  ELSE [n |-> Min(fail.n + 1, budget + 1),
                        first |-> IF fail.n + 1 >= budget THEN 0
                                  ELSE IF fail.n = 0 THEN now ELSE fail.first,
                        last |-> now,
                        cancels |-> /\ fail.cancels
                                    /\ fail.n < budget
                                    /\ out.err.kind \in {"cancelled", "deadline"}]
       /\ overlap' = IF overlap.open /\ out.err.kind \notin {"none", "ratelimit"}
                     THEN [overlap EXCEPT !.failures = Min(overlap.failures + 1, budget)]
                     ELSE overlap
       /\ UNCHANGED <<now, modelID, budget, gwVars, rtVars>>

Next ==
    \/ Tick
    \/ Healthy
    \/ \E c \in Sequential : ChatCall(c)
    \/ \E c \in Sequential, out \in ClientOutcomes : ChatReturn(c, out)

Spec == Init /\ [][Next]_vars

\* ---------------------------------------------------------------- concurrent callers
\* what the provider client returns to the concurrent callers
ConcurrentOutcomes ==
    {[resp |-> Resp("", MaxTokens), err |-> NoError],
     [resp |-> NilResp, err |-> RateLimitError(MaxReset)],
     [resp |-> NilResp, err |-> OtherError("request")]}

\* several goroutines call Chat and Healthy on the same model
NextConcurrent ==
    \/ Tick
    \/ Healthy
    \/ \E c \in Callers : ChatCall(c)
    \/ \E c \in Callers, out \in ConcurrentOutcomes : ChatReturn(c, out)

SpecConcurrent == Init /\ [][NextConcurrent]_vars

\* ---------------------------------------------------------------- LangRouter
\* what a model's provider client returns to the router's call
RouterOutcomes ==
    {[resp |-> Resp("", MaxTokens), err |-> NoError]}
    \cup {[resp |-> NilResp, err |-> RateLimitError(MaxReset)]}
    \cup {[resp |-> NilResp, err |-> OtherError(k)] : k \in {"request", "cancelled", "deadline"}}

\* the router is constructed with its retry policy
NewLangRouter(n) ==
    /\ rPhase = "new"
    /\ rPhase' = "idle"
    /\ maxAttempts' = n
    /\ UNCHANGED <<rModels, rCtx, rAttempts, rPicked, rStartedAt, rOut, rLastErr,
                   rResult, rCalls, rPrev, rCtxAt, rRequests>>
    /\ UNCHANGED <<lmVars, gwVars>>

\* chat(ctx, request) is called: attempts <- 0
RouterChat ==
    /\ rPhase \in {"idle", "done"}
    /\ rRequests < MaxRequests
    /\ rRequests' = rRequests + 1
    /\ rPhase' = "loop"
    /\ rCtx' = "live"
    /\ rAttempts' = 0
    /\ rPicked' = ""
    /\ rStartedAt' = 0
    /\ rOut' = [resp |-> NilResp, err |-> NoError]
    /\ rLastErr' = NoError
    /\ rResult' = NoResult
    /\ rCalls' = 0
    /\ rPrev' = NoPrevious
    /\ rCtxAt' = "never"
    /\ UNCHANGED <<rModels, maxAttempts>>
    /\ UNCHANGED <<lmVars, gwVars>>

\* the caller cancels ctx, or its deadline passes
RouterContextDone(kind) ==
    /\ rPhase \in {"loop", "calling", "handling"}
    /\ rCtx = "live"
    /\ rCtx' = kind
    /\ rCtxAt' = rPhase
    /\ UNCHANGED <<rModels, maxAttempts, rPhase, rAttempts, rPicked, rStartedAt,
                   rOut, rLastErr, rResult, rCalls, rPrev, rRequests>>
    /\ UNCHANGED <<lmVars, gwVars>>

\* faulty variant: the loop runs one attempt more
AttemptsLeftOneMore(attempts, max) == attempts <= max

\* while attempts < maxAttempts
AttemptsLeft(attempts, max) == attempts < max

\* faulty variant: with no healthy model every model is a candidate
CandidatesFallback(ms, t) ==
    IF \A m \in ModelIDs : ~HealthyResult(ms[m].rateLimit, ms[m].errorBudget, t)
    THEN ModelIDs
    ELSE {m \in ModelIDs : HealthyResult(ms[m].rateLimit, ms[m].errorBudget, t)}

\* faulty variant: the filter leaves out the error budget
CandidatesNotLimited(ms, t) ==
    {m \in ModelIDs : ~Limited(ms[m].rateLimit, t)}

\* healthy <- [m in models if m.healthy()]
Candidates(ms, t) ==
    {m \in ModelIDs : HealthyResult(ms[m].rateLimit, ms[m].errorBudget, t)}

\* the models after the filter's healthy() calls: an expired limit is cleared,
\* the bucket of a model that is not limited is refilled
AfterFilter(ms, t) ==
    [m \in ModelIDs |->
        [ms[m] EXCEPT !.rateLimit = AfterLimited(ms[m].rateLimit, t),
                      !.errorBudget = IF Limited(ms[m].rateLimit, t)
                                      THEN ms[m].errorBudget
                                      ELSE Refill(ms[m].errorBudget, t)]]

\* faulty variant: a done context is only seen by the provider call
ContextObservedNever(c) == FALSE

\* if ctx cancelled
ContextObserved(c) == c # "live"

\* chat returns; its locals are gone
RouterReturn(kind, resp, err) ==
    /\ rPhase' = "done"
    /\ rResult' = [kind |-> kind, resp |-> resp, err |-> err]
    /\ rPicked' = ""
    /\ rStartedAt' = 0
    /\ rOut' = [resp |-> NilResp, err |-> NoError]
    /\ rLastErr' = NoError
    /\ rPrev' = NoPrevious

\* the loop head up to the provider call: the guard, the check of ctx, the
\* filter, the pick (any picker: any of the candidates)
RouterLoop ==
    /\ rPhase = "loop"
    /\ IF ~AttemptsLeft(rAttempts, maxAttempts)
       THEN /\ RouterReturn("AllModelsUnavailable", NilResp, rLastErr)
            /\ UNCHANGED <<rModels, rCalls>>
       ELSE IF ContextObserved(rCtx)
       THEN /\ RouterReturn("context", NilResp, OtherError(rCtx))
            /\ UNCHANGED <<rModels, rCalls>>
       ELSE /\ rModels' = AfterFilter(rModels, now)
            /\ IF Candidates(rModels, now) = {}
               THEN /\ RouterReturn("NoModelsAvailable", NilResp, NoError)
                    /\ UNCHANGED rCalls
               ELSE /\ \E m \in Candidates(rModels, now) : rPicked' = m
                    /\ rPhase' = "calling"
                    /\ rCalls' = rCalls + 1
                    /\ rStartedAt' = now
                    /\ rPrev' = [rPrev EXCEPT !.excluded =
                                     rPrev.marked /\ rPrev.id \notin Candidates(rModels, now)]
                    /\ UNCHANGED <<rResult, rOut, rLastErr>>
    /\ UNCHANGED <<maxAttempts, rCtx, rAttempts, rCtxAt, rRequests>>
    /\ UNCHANGED <<lmVars, gwVars>>

\* the picked model's chat: its provider client returns `out`, which is the
\* context's error when ctx is done, the model updates its health and
\* latency as LangModel.Chat does and returns to the router
RouterModelChat(out) ==
    LET m == rModels[rPicked]
    IN /\ rPhase = "calling"
       /\ rCtx # "live" => out.err = OtherError(rCtx)
       /\ out.err = NoError => m.latency.count < MaxRouterSamples
       /\ rModels' = [rModels EXCEPT ![rPicked] =
                         [rateLimit |-> ChatRateLimit(m.rateLimit, out, now),
                          errorBudget |-> ChatErrorBudget(m.errorBudget, out, now),
                          latency |-> ChatLatency(m.latency, out, now - rStartedAt)]]
       /\ rOut' = ChatResult(rPicked, out)
       /\ rPhase' = "handling"
       /\ rPrev' = [id |-> rPicked,
                    marked |-> \/ IsRateLimitError(out.err)
                               \/ /\ out.err # NoError
                                  /\ Refill(m.errorBudget, now).tokens = 1,
                    excluded |-> FALSE]
       /\ UNCHANGED <<maxAttempts, rCtx, rAttempts, rPicked, rStartedAt, rLastErr,
                      rResult, rCalls, rCtxAt, rRequests>>
       /\ UNCHANGED <<lmVars, gwVars>>

\* if err is none
HandledAsSuccess(err) == err = NoError

\* the router looks at what m.chat returned
RouterHandle ==
    /\ rPhase = "handling"
    /\ IF HandledAsSuccess(rOut.err)
       THEN /\ RouterReturn("success", rOut.resp, NoError)
            /\ UNCHANGED rAttempts
       ELSE IF rOut.err.kind \in {"cancelled", "deadline"}
       THEN /\ RouterReturn("context", NilResp, rOut.err)
            /\ UNCHANGED rAttempts
       ELSE /\ rAttempts' = rAttempts + 1
            /\ rLastErr' = rOut.err
            /\ rPhase' = "loop"
            /\ rPicked' = ""
            /\ rStartedAt' = 0
            /\ rOut' = [resp |-> NilResp, err |-> NoError]
            /\ UNCHANGED <<rResult, rPrev>>
    /\ UNCHANGED <<rModels, maxAttempts, rCtx, rCalls, rCtxAt, rRequests>>
    /\ UNCHANGED <<lmVars, gwVars>>

NextRouter ==
    \/ Tick
    \/ \E n \in 1..MaxAttempts : NewLangRouter(n)
    \/ RouterChat
    \/ \E kind \in {"cancelled", "deadline"} : RouterContextDone(kind)
    \/ RouterLoop
    \/ \E out \in RouterOutcomes : RouterModelChat(out)
    \/ RouterHandle

\* a chat call keeps running and the provider client returns
SpecRouter ==
    /\ Init
    /\ [][NextRouter]_vars
    /\ WF_vars(RouterLoop)
    /\ WF_vars(\E out \in RouterOutcomes : RouterModelChat(out))
    /\ WF_vars(RouterHandle)

\* ---------------------------------------------------------------- Gateway
\* the OS delivers a signal: signal.Notify's send does not block, a signal
\* that finds the buffer full is dropped
Signal(sig) ==
    /\ gRun \in {"waiting", "break", "shutdown"}
    /\ Len(signalC) < SignalBuffer
    /\ signalC' = Append(signalC, sig)
    /\ signalled' = TRUE
    /\ UNCHANGED <<gRun, shutdownC, ctxDone, shutdownCtx, shutdownCalls,
                   trigger, requestedAt, lmVars, rtVars>>

\* faulty variant: a send that is dropped when Run is not receiving
ShutdownSendNoWait(closed, pos) == closed \/ pos = "waiting"

\* the shutdown channel after close(gw.shutdownC)
ShutdownClose(closed, pos) == TRUE

\* Shutdown(), called at most once
GatewayShutdown ==
    /\ requestedAt = "never"
    /\ shutdownC' = ShutdownClose(shutdownC, gRun)
    /\ requestedAt' = gRun
    /\ UNCHANGED <<gRun, signalC, ctxDone, shutdownCtx, shutdownCalls,
                   trigger, signalled, lmVars, rtVars>>

\* the context passed to Run is cancelled or its deadline passes
ContextDone ==
    /\ ~ctxDone
    /\ ctxDone' = TRUE
    /\ UNCHANGED <<gRun, signalC, shutdownC, shutdownCtx, shutdownCalls,
                   trigger, requestedAt, signalled, lmVars, rtVars>>

\* Run is called: configProvider.Start(), serverManager.Start()
RunStart ==
    /\ gRun = "new"
    /\ gRun' = "starting"
    /\ UNCHANGED <<signalC, shutdownC, ctxDone, shutdownCtx, shutdownCalls,
                   trigger, requestedAt, signalled, lmVars, rtVars>>

\* signal.Notify(gw.signalC, ...), then the loop is entered
RunNotify ==
    /\ gRun = "starting"
    /\ gRun' = "waiting"
    /\ UNCHANGED <<signalC, shutdownC, ctxDone, shutdownCtx, shutdownCalls,
                   trigger, requestedAt, signalled, lmVars, rtVars>>

\* faulty variant: the select has a default case that leaves the loop
ReadyCasesWithDefault(sigs, closed, done) ==
    (IF sigs # <<>> THEN {"signal"} ELSE {})
    \cup {"request"}
    \cup (IF done THEN {"ctx"} ELSE {})

\* the cases of the select that can proceed
ReadyCases(sigs, closed, done) ==
    (IF sigs # <<>> THEN {"signal"} ELSE {})
    \cup (IF closed THEN {"request"} ELSE {})
    \cup (IF done THEN {"ctx"} ELSE {})

\* the context gw.shutdown is called with: context.Background() in the
\* ctx.Done() case, Run's ctx after break LOOP
ShutdownContext(case, done) ==
    IF case = "ctx" THEN [which |-> "background", done |-> done]
    ELSE [which |-> "ctx", done |-> done]

\* gw.shutdown(c): serverManager.Shutdown is entered
EnterShutdown(case) ==
    /\ gRun' = "shutdown"
    /\ shutdownCtx' = ShutdownContext(case, ctxDone)
    /\ shutdownCalls' = shutdownCalls + 1

\* the select takes one of its ready cases, any of them when several are
\* ready; the ctx.Done() case goes on into gw.shutdown(context.Background())
RunSelect(case) ==
    /\ gRun = "waiting"
    /\ case \in ReadyCases(signalC, shutdownC, ctxDone)
    /\ trigger' = [case |-> case, ready |-> ReadyCases(signalC, shutdownC, ctxDone)]
    /\ signalC' = IF case = "signal" THEN Tail(signalC) ELSE signalC
    /\ IF case = "ctx"
       THEN EnterShutdown(case)
       ELSE gRun' = "break" /\ UNCHANGED <<shutdownCtx, shutdownCalls>>
    /\ UNCHANGED <<shutdownC, ctxDone, requestedAt, signalled, lmVars, rtVars>>

\* after break LOOP: return gw.shutdown(ctx)
RunBreak ==
    /\ gRun = "break"
    /\ EnterShutdown(trigger.case)
    /\ UNCHANGED <<signalC, shutdownC, ctxDone, trigger, requestedAt, signalled, lmVars, rtVars>>

\* serverManager.Shutdown returns, Run returns its error; the deferred
\* signal.Stop ends the delivery of signals
RunReturn ==
    /\ gRun = "shutdown"
    /\ gRun' = "returned"
    /\ UNCHANGED <<signalC, shutdownC, ctxDone, shutdownCtx, shutdownCalls,
                   trigger, requestedAt, signalled, lmVars, rtVars>>

GatewayNext ==
    \/ \E sig \in Signals : Signal(sig)
    \/ GatewayShutdown
    \/ ContextDone
    \/ RunStart
    \/ RunNotify
    \/ \E case \in {"signal", "request", "ctx"} : RunSelect(case)
    \/ RunBreak
    \/ RunReturn

\* Run is a running goroutine; serverManager.Shutdown is taken to return
SpecGateway ==
    /\ Init
    /\ [][GatewayNext]_vars
    /\ WF_vars(RunNotify)
    /\ WF_vars(\E case \in {"signal", "request", "ctx"} : RunSelect(case))
    /\ WF_vars(RunBreak)
    /\ WF_vars(RunReturn)

\* ---------------------------------------------------------------- properties
\* the tokens a bucket holds at time t, lazy refill included
Available(b, t) ==
    Min(b.capacity, b.tokens + ((t - b.lastRefill) \div b.refillInterval))

\* the tracker holds a reset instant that is still ahead of t
InCooldown(rl, t) == rl.isSome /\ rl.at > t

ChatReturned == last.op = "ChatReturn"

OtherErrorKinds == {"request", "cancelled", "deadline"}

\* C1: a Healthy() call returns true exactly when the rate-limit tracker is
\* not limited and the error budget, after its lazy refill, holds a token.
C1_HealthyIff ==
    [][last'.op = "Healthy" =>
         (last'.ret <=> (~InCooldown(rateLimit, now) /\ Available(errorBudget, now) > 0))]_vars

C1_Witness ==
    /\ last.op = "Healthy"
    /\ ~last.ret
    /\ ~rateLimit.isSome
    /\ errorBudget.tokens = 0

\* C2: on a rate-limit error Chat marks the model limited until now +
\* untilReset and leaves the error budget and the latency estimator as they
\* were.
C2_RateLimitFrame ==
    [][(last'.op = "ChatReturn" /\ last'.out.err.kind = "ratelimit") =>
         /\ rateLimit' = [isSome |-> TRUE, at |-> now + last'.out.err.untilReset]
         /\ errorBudget' = errorBudget
         /\ latency' = latency]_vars

C2_Witness ==
    /\ ChatReturned
    /\ last.out.err.kind = "ratelimit"
    /\ last.out.err.untilReset > 0
    /\ InCooldown(rateLimit, now)
    /\ errorBudget.tokens = budget
    /\ latency.count > 0

\* C3: after a rate-limit error with reset duration d handled at time t0,
\* with a token in the error budget and no error since, every Healthy() call
\* before t0 + d returns false and every Healthy() call after t0 + d returns
\* true, with or without calls in between.
C3_CooldownExpires ==
    [][(last'.op = "Healthy" /\ cooldown.active) =>
         /\ now < cooldown.until => ~last'.ret
         /\ (now > cooldown.until /\ cooldown.hadTokens) => last'.ret]_vars

C3_Witness ==
    /\ last.op = "Healthy"
    /\ last.ret
    /\ cooldown.active
    /\ cooldown.hadTokens
    /\ cooldown.until > cooldown.from
    /\ now > cooldown.until

\* C4: on an error that is not a rate-limit error Chat takes exactly one
\* token from the error budget when one is available, none when the budget is
\* empty, and leaves the rate-limit tracker and the latency estimator as they
\* were.
C4_OtherErrorDebitsOne ==
    [][(last'.op = "ChatReturn" /\ last'.out.err.kind \in OtherErrorKinds) =>
         /\ errorBudget'.tokens = IF Available(errorBudget, now) > 0
                                  THEN Available(errorBudget, now) - 1
                                  ELSE 0
         /\ rateLimit' = rateLimit
         /\ latency' = latency]_vars

C4_Witness ==
    /\ ChatReturned
    /\ last.out.err.kind = "request"
    /\ last.took
    /\ budget = MaxBudget
    /\ errorBudget.tokens = budget - 1

\* C5: a success that reports zero response tokens adds no latency sample
\* (count and value stay) and is still returned as a success.
C5_ZeroTokensSkipped ==
    [][(last'.op = "ChatReturn" /\ last'.out.err = NoError /\ last'.out.resp.tokens = 0) =>
         /\ latency' = latency
         /\ last'.ret.err = NoError]_vars

\* C6: a success with T > 0 response tokens after elapsed time E adds exactly
\* one sample, E/T (the estimate itself when it is the first sample); a call
\* that ends in an error adds none; the count grows by one exactly on a
\* success with T > 0, so it equals the number of such calls.
C6_OneSamplePerSuccess ==
    [][last'.op = "ChatReturn" =>
         LET out == last'.out
             E == now - inflight[last'.c].startedAt
             T == out.resp.tokens
         IN /\ (out.err = NoError /\ T > 0) =>
                   /\ latency'.count = latency.count + 1
                   /\ latency.count = 0 =>
                         /\ latency'.value[2] > 0
                         /\ latency'.value[1] * T = E * latency'.value[2]
            /\ out.err # NoError => latency' = latency
            /\ latency'.count =
                   latency.count + (IF out.err = NoError /\ T > 0 THEN 1 ELSE 0)]_vars

\* C7: a response returned as a success carries the id of this LangModel,
\* whatever id the client had put in it: never empty, never another model's.
C7_ModelIDStamped ==
    (ChatReturned /\ last.ret.err = NoError) =>
        /\ ~last.ret.resp.nil
        /\ last.ret.resp.modelID = modelID
        /\ last.ret.resp.modelID # ""
        /\ last.ret.resp.modelID \notin ModelIDs \ {modelID}

C7_Witness ==
    /\ ChatReturned
    /\ last.out.err = NoError
    /\ last.out.resp.modelID \in ModelIDs \ {modelID}
    /\ last.ret.resp.modelID = modelID

\* C8: an error of the provider client is returned by Chat as it is, same
\* kind and same reset duration, never as a success.
C8_ErrorPropagated ==
    (ChatReturned /\ last.out.err # NoError) =>
        /\ last.ret.err = last.out.err
        /\ last.ret.err # NoError

C8_Witness ==
    /\ ChatReturned
    /\ last.out.err.kind = "ratelimit"
    /\ last.ret.err = RateLimitError(MaxReset)

\* C9: the error budget's token count stays between 0 and the configured
\* capacity.
C9_TokensInRange ==
    /\ 0 <= errorBudget.tokens
    /\ errorBudget.tokens <= budget

C9_Witness ==
    /\ ChatReturned
    /\ last.out.err.kind \in OtherErrorKinds
    /\ ~last.took
    /\ errorBudget.tokens = 0
    /\ budget = MaxBudget

\* the model would answer Healthy() = true at time t
ObservablyHealthy(rl, b, t) == ~InCooldown(rl, t) /\ Available(b, t) > 0

\* when the first non-rate-limit failure happened, a failure at `now` included
FirstFail == IF fail.n = 0 THEN now ELSE fail.first

\* the step is Chat handling the budget-th non-rate-limit failure
LastOfBudgetFailures ==
    /\ last'.op = "ChatReturn"
    /\ last'.out.err.kind \in OtherErrorKinds
    /\ fail.n = budget - 1

C10_StartsHealthy == last.op = "New" => ObservablyHealthy(rateLimit, errorBudget, now)

\* a Healthy() call one refill interval or more after the last failure, with
\* no rate limit pending, returns true
C10_Recovers ==
    (last'.op = "Healthy" /\ fail.n >= 1 /\ now >= fail.last + RefillInterval
       /\ ~InCooldown(rateLimit, now)) => last'.ret

\* C10 as stated: the model starts healthy; after c = capacity failures, the
\* first and the last less than one refill interval apart, it is unhealthy;
\* one refill interval after the last failure it is healthy again.
C10_UnhealthyWithinInterval ==
    /\ []C10_StartsHealthy
    /\ [][/\ (LastOfBudgetFailures /\ now - FirstFail < RefillInterval) =>
                ~ObservablyHealthy(rateLimit', errorBudget', now')
           /\ C10_Recovers]_vars

\* C10 amended: as above, for c failures with no refill instant of the bucket
\* (a multiple of the refill interval after its creation) between the first
\* and the last of them.
C10_UnhealthyWithinPeriod ==
    /\ []C10_StartsHealthy
    /\ [][/\ (LastOfBudgetFailures
                  /\ FirstFail \div RefillInterval = now \div RefillInterval) =>
                ~ObservablyHealthy(rateLimit', errorBudget', now')
           /\ C10_Recovers]_vars

C10_Witness ==
    /\ last.op = "Healthy"
    /\ last.ret
    /\ budget = MaxBudget
    /\ fail.n = budget
    /\ now >= fail.last + RefillInterval
    /\ errorBudget.tokens < budget

\* C19: a successful Chat call leaves the rate-limit tracker and the error
\* budget exactly as they were: an active cooldown stays, no token comes back,
\* and the model is as healthy after the call as it was before it.
C19_SuccessKeepsHealth ==
    [][(last'.op = "ChatReturn" /\ last'.out.err = NoError) =>
         /\ rateLimit' = rateLimit
         /\ errorBudget' = errorBudget
         /\ ObservablyHealthy(rateLimit', errorBudget', now')
              <=> ObservablyHealthy(rateLimit, errorBudget, now)]_vars

C19_Witness ==
    /\ ChatReturned
    /\ last.out.err = NoError
    /\ InCooldown(rateLimit, now)
    /\ errorBudget.tokens < budget

ContextErrorKinds == {"cancelled", "deadline"}

\* the step is Chat handling a context-cancelled or deadline-exceeded error
ContextErrorStep ==
    /\ last'.op = "ChatReturn"
    /\ last'.out.err.kind \in ContextErrorKinds

\* Chat debits one token for the context error, if one is available, and
\* returns the error
C20_ContextErrorDebited ==
    ContextErrorStep =>
        /\ errorBudget'.tokens = IF Available(errorBudget, now) > 0
                                 THEN Available(errorBudget, now) - 1
                                 ELSE 0
        /\ last'.ret.err = last'.out.err

\* the step is the budget-th failure, every one of them a context error
LastOfBudgetCancellations ==
    /\ ContextErrorStep
    /\ fail.n = budget - 1
    /\ fail.cancels

\* C20 as stated: a context error costs a token like any other error, and
\* after c = capacity context errors, the first and the last less than one
\* refill interval apart, the model is unhealthy.
C20_CancellationsWithinInterval ==
    [][/\ C20_ContextErrorDebited
       /\ (LastOfBudgetCancellations /\ now - FirstFail < RefillInterval) =>
             ~ObservablyHealthy(rateLimit', errorBudget', now')]_vars

\* C20 amended: as above, for c context errors with no refill instant of the
\* bucket between the first and the last of them.
C20_CancellationsWithinPeriod ==
    [][/\ C20_ContextErrorDebited
       /\ (LastOfBudgetCancellations
              /\ FirstFail \div RefillInterval = now \div RefillInterval) =>
             ~ObservablyHealthy(rateLimit', errorBudget', now')]_vars

C20_Witness ==
    /\ ChatReturned
    /\ last.out.err.kind = "cancelled"
    /\ budget = MaxBudget
    /\ fail.n = budget
    /\ fail.cancels
    /\ last.took
    /\ errorBudget.tokens = 0
    /\ ~rateLimit.isSome

\* ---------------------------------------------------------------- concurrent callers' properties
C15_State ==
    /\ overlap.open =>
          Available(errorBudget, now) =
              IF overlap.tokens > overlap.failures
              THEN overlap.tokens - overlap.failures ELSE 0
    /\ (\E c \in Callers : inflight[c].busy) =>
          /\ ENABLED Healthy
          /\ \A d \in Callers : inflight[d].busy =>
                \A out \in ConcurrentOutcomes \ {o \in ConcurrentOutcomes : o.err = NoError} :
                    ENABLED ChatReturn(d, out)

C15_Step ==
    last'.op = "ChatCall" =>
        rateLimit' = rateLimit /\ errorBudget' = errorBudget /\ latency' = latency

\* C15: with several Chat calls in the provider client at once, a call
\* changes no health state before its client returns; k failures that are not
\* rate limits, handled with no clock advance since all callers were in
\* flight with t tokens available, leave max(0, t - k) tokens in every
\* interleaving; while a call is in flight Healthy() and every other call's
\* handling of its outcome can proceed.
C15_NoLostUpdate == []C15_State /\ [][C15_Step]_vars

C15_Witness ==
    /\ overlap.open
    /\ overlap.tokens = MaxBudget
    /\ overlap.failures = MaxBudget
    /\ errorBudget.tokens = 0
    /\ last.op = "ChatReturn"
    /\ \A c \in Callers : ~inflight[c].busy

\* ---------------------------------------------------------------- Gateway properties
C16_State ==
    /\ shutdownCalls <= 1
    /\ gRun = "returned" => shutdownCalls = 1
    /\ shutdownCalls = 1 =>
          /\ gRun \in {"shutdown", "returned"}
          /\ trigger.case \in {"signal", "request", "ctx"}
          /\ trigger.case = "signal" => signalled
          /\ trigger.case = "request" => requestedAt # "never"
          /\ trigger.case = "ctx" => ctxDone

C16_Step ==
    /\ (gRun' = "returned" /\ gRun # "returned") => gRun = "shutdown"
    /\ shutdownCalls' # shutdownCalls =>
          /\ shutdownCalls' = shutdownCalls + 1
          /\ gRun \in {"waiting", "break"}
          /\ gRun' = "shutdown"

\* C16: Run returns only from the server shutdown, which it calls exactly
\* once, after a select case was taken whose trigger had really happened (a
\* delivered signal, a Shutdown() call, a done context), however many
\* triggers were ready.
C16_ShutdownOncePerRun == []C16_State /\ [][C16_Step]_vars

C16_Witness ==
    /\ gRun = "returned"
    /\ shutdownCalls = 1
    /\ trigger.ready = {"signal", "request", "ctx"}

\* C17: once Shutdown() was called, before Run, before the wait loop or
\* during it, a Run that was called shuts the servers down and returns.
C17_RequestNeverLost ==
    (requestedAt # "never" /\ gRun # "new") ~> (gRun = "returned" /\ shutdownCalls = 1)

C17_Witness ==
    /\ requestedAt = "new"
    /\ gRun = "returned"
    /\ trigger.case = "request"
    /\ trigger.ready = {"request"}

\* C18: when Run's context is already done as serverManager.Shutdown is
\* called, the call is made with context.Background().
C18_DoneContextNotPassed ==
    (shutdownCalls >= 1 /\ shutdownCtx.done) => shutdownCtx.which = "background"

\* ---------------------------------------------------------------- LangRouter properties
RouterActive == rPhase \in {"loop", "calling", "handling"}

\* model m of the router would answer healthy() = true now
RouterHealthy(m) ==
    ObservablyHealthy(rModels[m].rateLimit, rModels[m].errorBudget, now)

\* the step is the filter of an attempt: the loop guard and the check of ctx
\* have let the call through
FilterStep ==
    /\ rPhase = "loop"
    /\ rPhase' # "loop"
    /\ rAttempts < maxAttempts
    /\ rCtx = "live"

\* the step leaves model m's health and latency as they are; of its fields
\* only an expired reset instant may be cleared
ModelUntouched(m) ==
    /\ rModels'[m].errorBudget = rModels[m].errorBudget
    /\ rModels'[m].latency = rModels[m].latency
    /\ \/ rModels'[m].rateLimit = rModels[m].rateLimit
       \/ /\ rModels[m].rateLimit.isSome
          /\ rModels[m].rateLimit.at <= now
          /\ ~rModels'[m].rateLimit.isSome
    /\ ObservablyHealthy(rModels'[m].rateLimit, rModels'[m].errorBudget, now')
          <=> RouterHealthy(m)

\* C11: an attempt whose filter finds no healthy model ends the call with
\* NoModelsAvailable and without a provider call, leaving every model's
\* health and latency as they were; on the first attempt the call has then
\* made no provider call at all.
C11_NoneHealthy ==
    [][(FilterStep /\ \A m \in ModelIDs : ~RouterHealthy(m)) =>
          /\ rPhase' = "done"
          /\ rResult'.kind = "NoModelsAvailable"
          /\ rCalls' = rCalls
          /\ \A m \in ModelIDs : ModelUntouched(m)
          /\ rAttempts = 0 => rCalls' = 0]_vars

C11_Witness ==
    /\ rPhase = "done"
    /\ rResult.kind = "NoModelsAvailable"
    /\ rAttempts = 0
    /\ rCalls = 0
    /\ \A m \in ModelIDs : rModels[m].errorBudget.tokens = 0 /\ ~RouterHealthy(m)

\* the step is the pick of an attempt and the start of its provider call
PickStep == rPhase = "loop" /\ rPhase' = "calling"

\* the picked model was healthy at the filter, and the attempt makes one
\* provider call, to that model; the filter spends no token and adds no
\* latency sample
C12_PickedWasHealthy ==
    PickStep =>
        /\ RouterHealthy(rPicked')
        /\ rCalls' = rCalls + 1
        /\ \A m \in ModelIDs :
              /\ rModels'[m].latency = rModels[m].latency
              /\ Available(rModels'[m].errorBudget, now) =
                     Available(rModels[m].errorBudget, now)

\* C12 as claimed: a model that is unhealthy at an attempt's filter is not
\* picked and not called in that attempt, and the model that the previous
\* attempt rate-limited or took the last token of is not the one picked.
C12_NeverNextAttempt ==
    [][/\ C12_PickedWasHealthy
       /\ (PickStep /\ rPrev.marked) => rPicked' # rPrev.id]_vars

\* C12 amended: as above, the model of the previous attempt being left out
\* while it is still unhealthy at the filter: its cooldown has not expired
\* and its bucket has not been refilled.
C12_NeverWhileUnhealthy ==
    [][/\ C12_PickedWasHealthy
       /\ (PickStep /\ rPrev.marked /\ ~RouterHealthy(rPrev.id)) =>
             (rPicked' # rPrev.id /\ rPrev'.excluded)]_vars

C12_Witness ==
    /\ rPhase = "calling"
    /\ rPrev.marked
    /\ rPrev.excluded
    /\ rPicked # rPrev.id
    /\ ~RouterHealthy(rPrev.id)

\* no provider call is started once ctx is done
C13_NoFurtherCall ==
    (RouterActive /\ rCtx # "live") => rCalls' = rCalls

\* C13 as claimed: a call whose context became done during an attempt
\* returns the context's error and starts no further provider call.
C13_ContextErrorReturned ==
    /\ []((rPhase = "done" /\ rCtxAt \in {"calling", "handling"}) =>
            rResult.kind = "context")
    /\ [][C13_NoFurtherCall]_vars

\* C13 amended: no further provider call is started; the context's error
\* is returned when ctx became done while the provider call was in flight;
\* when m.chat had already returned, the call returns that attempt's
\* response, or AllModelsUnavailable after the last attempt failed, or the
\* context's error.
C13_ContextObservedAtGuard ==
    /\ []((rPhase = "done" /\ rCtxAt = "calling") => rResult.kind = "context")
    /\ []((rPhase = "done" /\ rCtxAt = "handling") =>
            /\ rResult.kind \in {"success", "context", "AllModelsUnavailable"}
            /\ rResult.kind = "AllModelsUnavailable" => rAttempts = maxAttempts)
    /\ [][C13_NoFurtherCall]_vars

C13_Witness ==
    /\ rPhase = "done"
    /\ rCtxAt = "calling"
    /\ rResult.kind = "context"
    /\ rCalls = 1
    /\ rAttempts + 1 < maxAttempts
    /\ \E m \in ModelIDs : RouterHealthy(m)

C14_State ==
    /\ rPhase # "new" => maxAttempts >= 1
    /\ rCalls <= maxAttempts
    /\ rAttempts <= rCalls
    /\ rPhase = "done" <=> rResult.kind # "none"
    /\ rPhase = "done" =>
          /\ rResult.kind \in {"success", "context", "NoModelsAvailable",
                                "AllModelsUnavailable"}
          /\ rResult.kind = "success" <=> ~rResult.resp.nil
          /\ rResult.kind = "success" => rResult.err = NoError
          /\ rResult.kind = "context" => rResult.err.kind \in {"cancelled", "deadline"}
          /\ rResult.kind = "AllModelsUnavailable" =>
                /\ rAttempts = maxAttempts
                /\ rCalls = maxAttempts
                /\ rResult.err.kind \in {"request", "ratelimit"}

C14_Step ==
    /\ (rPhase # "done" /\ rPhase' = "done" /\ rResult'.kind = "AllModelsUnavailable") =>
          rResult'.err = rLastErr
    /\ (rPhase = "handling" /\ rAttempts' # rAttempts) =>
          /\ rAttempts' = rAttempts + 1
          /\ rOut.err # NoError
          /\ rLastErr' = rOut.err
    /\ (rPhase # "done" /\ rPhase' = "done" /\ rResult'.kind = "success") =>
          /\ rPhase = "handling"
          /\ rOut.err = NoError
          /\ rResult'.resp = rOut.resp
          /\ rResult'.resp.modelID = rPicked

\* C14: a chat call makes at most maxAttempts provider calls and, the
\* provider client returning, ends with one result: a response, which is
\* that of an attempt that succeeded, the context's error,
\* NoModelsAvailable, or AllModelsUnavailable, which comes only after
\* maxAttempts failed attempts and carries the error of the last of them.
C14_Terminates ==
    /\ []C14_State
    /\ [][C14_Step]_vars
    /\ RouterActive ~> rPhase = "done"

C14_Witness ==
    /\ rPhase = "done"
    /\ rResult.kind = "AllModelsUnavailable"
    /\ maxAttempts = MaxAttempts
    /\ rCalls = maxAttempts
    /\ rResult.err = OtherError("request")

====
